---- MODULE Spec2Model ----
(***************************************************************************)
(* Model of src/vs/workbench/contrib/quickopen/browser/commandsHandler.ts: *)
(* the command-palette history (CommandsHistory, a static LRU cache with a *)
(* static counter, persisted in the storage service) and the result        *)
(* pipeline of CommandsHandler.doGetResults (concat, distinct, label       *)
(* clashes, MRU sort, group markers).                                       *)
(***************************************************************************)
EXTENDS Integers, Sequences, FiniteSets, TLC

(***************************************************************************)
(* Bounds of the model.                                                    *)
(***************************************************************************)
MaxCap == 2
MaxCounter == 4
MaxHandles == 2
MaxEntries == 3
MaxSaved == 3
MaxQueries == 2

(***************************************************************************)
(* Values.                                                                 *)
(***************************************************************************)
\* JavaScript's undefined, for string-valued fields (groupLabel, description)
undefined == "<undefined>"
\* JavaScript's undefined, for number-valued results (peek, getNumber)
NoNumber == -1
\* static counter = 1 (line 53), and the value clearHistory resets it to (line 148)
InitialCounter == 1

\* the command ids the actions of the workbench carry
CommandIds == {"a", "b", "undefinedb"}
\* the values the history-length setting takes
Capacities == 0..MaxCap

\* The actions the active editor supports and the actions of the command
\* palette menu, as the (commandId, label) the entries are built from.
EditorActions ==
  { [commandId |-> "a",          label |-> "Save"],
    [commandId |-> "b",          label |-> "Saveundefined"] }

MenuActions ==
  { [commandId |-> "a",          label |-> "Save"],
    [commandId |-> "undefinedb", label |-> "Save"],
    [commandId |-> "b",          label |-> "alpha"] }

Labels == { action.label : action \in EditorActions \cup MenuActions }

VARIABLES
  cache,      \* CommandsHistory.cache: undefined, or an LRUCache (limit, entries oldest first)
  counter,    \* CommandsHistory.counter
  config,     \* the value of workbench.commandPalette.history
  histories,  \* the CommandsHistory instances: configuredCommandsHistoryLength of each
  matching,   \* the actions that match the query text: the editor's and the menu's, in order
  storage,    \* the storage service: commandPalette.mru.cache and commandPalette.mru.counter
  ret,        \* the last operation called and what it returned
  hist,       \* history of the run, kept for the properties (not program state)
  session,    \* the CommandsHandler and its collaborators: the extension service, the
              \* queries in flight, lastCommandPaletteInput, the command runners scheduled
  twin        \* a second process over its own storage, for the comparison of two loads

vars == <<cache, counter, config, histories, matching, storage, ret, hist, session, twin>>

(***************************************************************************)
(* Strings.                                                                *)
(***************************************************************************)
\* `${v}` of a template literal: undefined prints as "undefined"
Template(v) == IF v = undefined THEN "undefined" ELSE v

Lower == "abcdefghijklmnopqrstuvwxyz"
Upper == "ABCDEFGHIJKLMNOPQRSTUVWXYZ"

IndexIn(alphabet, ch) ==
  IF \E i \in 1..Len(alphabet) : SubSeq(alphabet, i, i) = ch
  THEN CHOOSE i \in 1..Len(alphabet) : SubSeq(alphabet, i, i) = ch
  ELSE 0

\* String.prototype.toLowerCase
RECURSIVE toLowerCase(_)
toLowerCase(s) ==
  IF Len(s) = 0 THEN ""
  ELSE LET ch == SubSeq(s, 1, 1)
           u  == IndexIn(Upper, ch)
       IN (IF u > 0 THEN SubSeq(Lower, u, u) ELSE ch) \o toLowerCase(SubSeq(s, 2, Len(s)))

\* String.prototype.localeCompare on lower-case strings: -1, 0 or 1
RECURSIVE localeCompare(_, _)
localeCompare(s, t) ==
  IF Len(s) = 0 /\ Len(t) = 0 THEN 0
  ELSE IF Len(s) = 0 THEN -1
  ELSE IF Len(t) = 0 THEN 1
  ELSE LET a == IndexIn(Lower, SubSeq(s, 1, 1))
           b == IndexIn(Lower, SubSeq(t, 1, 1))
       IN IF a < b THEN -1
          ELSE IF a > b THEN 1
          ELSE localeCompare(SubSeq(s, 2, Len(s)), SubSeq(t, 2, Len(t)))

(***************************************************************************)
(* Array.prototype.sort: a stable sort that asks only whether              *)
(* compare(later, earlier) < 0 (insertion of each element into the sorted  *)
(* prefix, as the engine does for short arrays).                           *)
(***************************************************************************)
Insert(sorted, x, compare(_, _)) ==
  LET n == Len(sorted)
      k == CHOOSE k \in 0..n :
             /\ \A j \in (k + 1)..n : compare(x, sorted[j]) < 0
             /\ (k = 0 \/ ~(compare(x, sorted[k]) < 0))
  IN SubSeq(sorted, 1, k) \o <<x>> \o SubSeq(sorted, k + 1, n)

sort(array, compare(_, _)) ==
  LET F[i \in 0..Len(array)] ==
        IF i = 0 THEN <<>> ELSE Insert(F[i - 1], array[i], compare)
  IN F[Len(array)]

(***************************************************************************)
(* LRUCache<string, number> of vs/base/common/map (ratio 1): a linked map  *)
(* in access order, oldest first, trimmed to its limit from the old end.   *)
(***************************************************************************)
NoCache == [defined |-> FALSE, limit |-> 0, entries |-> <<>>]

NewLRUCache(limit) == [defined |-> TRUE, limit |-> limit, entries |-> <<>>]

Keys(entries) == { entries[i].key : i \in 1..Len(entries) }

Without(entries, key) == SelectSeq(entries, LAMBDA e : e.key # key)

\* trimOld(limit) when size > limit: the newest `limit` entries stay
CheckTrim(c) ==
  LET n == Len(c.entries)
  IN IF n > c.limit
     THEN [c EXCEPT !.entries = IF c.limit <= 0 THEN <<>>
                                  ELSE SubSeq(c.entries, n - c.limit + 1, n)]
     ELSE c

\* set(key, value): the entry becomes the newest one, then the cache is trimmed
LRUSet(c, key, value) ==
  CheckTrim([c EXCEPT !.entries = Append(Without(c.entries, key), [key |-> key, value |-> value])])

\* set limit(limit)
LRUSetLimit(c, limit) == CheckTrim([c EXCEPT !.limit = limit])

\* peek(key): the value or undefined; the order is not touched
LRUPeek(c, key) ==
  [value |-> IF key \in Keys(c.entries)
             THEN (CHOOSE e \in { c.entries[i] : i \in 1..Len(c.entries) } : e.key = key).value
             ELSE NoNumber,
   cache |-> c]

\* get(key): the value or undefined; the entry becomes the newest one
LRUGet(c, key) ==
  LET found == LRUPeek(c, key)
  IN [value |-> found.value,
      cache |-> IF found.value = NoNumber THEN c
                ELSE [c EXCEPT !.entries = Append(Without(c.entries, key),
                                                  [key |-> key, value |-> found.value])]]

(***************************************************************************)
(* The storage service and JSON.                                           *)
(***************************************************************************)
\* what storageService.get(PREF_KEY_CACHE) can hold
RawMissing == [kind |-> "missing", usesLRU |-> FALSE, entries |-> <<>>]

\* JSON.stringify of an ISerializedCommandHistory
JSONstringify(serializedCache) ==
  [kind |-> "json", usesLRU |-> serializedCache.usesLRU, entries |-> serializedCache.entries]

\* JSON.parse inside the try/catch of load: the parsed value, or undefined when
\* there is nothing to parse or the text is not JSON
JSONparse(raw) ==
  IF raw.kind \in {"json", "noentries"}
  THEN [defined |-> TRUE, hasEntries |-> raw.kind = "json",
        usesLRU |-> raw.usesLRU, entries |-> raw.entries]
  ELSE [defined |-> FALSE, hasEntries |-> FALSE, usesLRU |-> FALSE, entries |-> <<>>]

\* storageService.getNumber(key, scope, fallback)
getNumber(stored, fallback) == IF stored = NoNumber THEN fallback ELSE stored

(***************************************************************************)
(* CommandsHistory.  The static state and the storage are passed as a      *)
(* record S = [cache, counter, storage]; each method returns the new one.  *)
(***************************************************************************)
Store == [cache |-> cache, counter |-> counter, storage |-> storage]

\* static saveState (lines 122-132)
saveState(S) ==
  IF ~S.cache.defined THEN S
  ELSE [S EXCEPT !.storage =
          [cache   |-> JSONstringify([usesLRU |-> TRUE, entries |-> S.cache.entries]),
           counter |-> S.counter]]

\* updateConfiguration that records the length and leaves the cache's limit alone
updateConfiguration_NoResize(S, configured) == S

\* updateConfiguration that resizes the cache and does not save it
updateConfiguration_NoSave(S, configured) ==
  IF S.cache.defined /\ S.cache.limit # configured
  THEN [S EXCEPT !.cache = LRUSetLimit(S.cache, configured)]
  ELSE S

\* updateConfiguration (lines 73-81), with the configured length it reads
updateConfiguration(S, configured) ==
  IF S.cache.defined /\ S.cache.limit # configured
  THEN saveState([S EXCEPT !.cache = LRUSetLimit(S.cache, configured)])
  ELSE S

\* entries.forEach(entry => cache.set(entry.key, entry.value)) (line 102)
RECURSIVE SetAll(_, _)
SetAll(c, entries) ==
  IF entries = <<>> THEN c
  ELSE SetAll(LRUSet(c, Head(entries).key, Head(entries).value), Tail(entries))

\* the comparator of the legacy sort with its operands exchanged
ByValue_Descending(a, b) == b.value - a.value

\* (a, b) => a.value - b.value (line 100)
ByValue(a, b) == a.value - b.value

\* load that takes the legacy entries in the order they were stored
load_Unsorted(S, configuredCommandsHistoryLength) ==
  LET serializedCache == JSONparse(S.storage.cache)
      empty == NewLRUCache(configuredCommandsHistoryLength)
  IN IF serializedCache.defined /\ ~serializedCache.hasEntries
     THEN [S |-> [S EXCEPT !.cache = empty], threw |-> TRUE]
     ELSE [S |-> [S EXCEPT !.cache = IF serializedCache.defined
                                     THEN SetAll(empty, serializedCache.entries) ELSE empty,
                           !.counter = getNumber(S.storage.counter, S.counter)],
           threw |-> FALSE]

\* load that starts from an empty cache whatever the storage holds
load_Fresh(S, configuredCommandsHistoryLength) ==
  [S |-> [S EXCEPT !.cache = NewLRUCache(configuredCommandsHistoryLength)], threw |-> FALSE]

\* load (lines 83-106): the new static state, and whether it threw
load(S, configuredCommandsHistoryLength) ==
  LET serializedCache == JSONparse(S.storage.cache)
      empty == NewLRUCache(configuredCommandsHistoryLength)
  IN IF serializedCache.defined /\ ~serializedCache.hasEntries
     THEN \* serializedCache.entries is undefined: a TypeError after line 94
          [S |-> [S EXCEPT !.cache = empty], threw |-> TRUE]
     ELSE LET entries == IF serializedCache.usesLRU
                         THEN serializedCache.entries
                         ELSE sort(serializedCache.entries, ByValue)
              loaded == IF serializedCache.defined THEN SetAll(empty, entries) ELSE empty
          IN [S |-> [S EXCEPT !.cache = loaded,
                              !.counter = getNumber(S.storage.counter, S.counter)],
              threw |-> FALSE]

\* push that does not advance the counter
push_NoIncrement(S, commandId) ==
  IF ~S.cache.defined THEN S
  ELSE saveState([S EXCEPT !.cache = LRUSet(S.cache, commandId, S.counter)])

\* push (lines 108-116)
push(S, commandId) ==
  IF ~S.cache.defined THEN S
  ELSE saveState([S EXCEPT !.cache = LRUSet(S.cache, commandId, S.counter),
                           !.counter = S.counter + 1])

\* peek that calls the cache's get, which touches the entry
peek_Get(c, commandId) ==
  IF c.defined THEN LRUGet(c, commandId) ELSE [value |-> NoNumber, cache |-> c]

\* peek (lines 118-120): the counter or undefined, and the cache after the call
peek(c, commandId) ==
  IF c.defined THEN LRUPeek(c, commandId) ELSE [value |-> NoNumber, cache |-> c]

\* clearHistory that restarts the counter and keeps the entries of the cache
clearHistory_KeepEntries(S, commandHistoryLength) ==
  saveState([S EXCEPT !.cache = IF S.cache.defined
                                 THEN LRUSetLimit(S.cache, commandHistoryLength)
                                 ELSE NewLRUCache(commandHistoryLength),
                      !.counter = InitialCounter])

\* static clearHistory (lines 145-151)
clearHistory(S, commandHistoryLength) ==
  saveState([S EXCEPT !.cache = NewLRUCache(commandHistoryLength),
                      !.counter = InitialCounter])

\* ClearCommandHistoryAction.run (lines 200-207)
ClearCommandHistoryActionRun(S, commandHistoryLength) ==
  IF commandHistoryLength > 0 THEN clearHistory(S, commandHistoryLength) ELSE S

(***************************************************************************)
(* CommandsHandler.doGetResults (lines 453-535), after the entries of the  *)
(* two sources have been built from the matching actions.                  *)
(***************************************************************************)
RecentlyUsed == "recently used"
OtherCommands == "other commands"

\* new EditorActionCommandEntry / ActionCommandEntry (lines 554, 594): a fresh
\* entry has no description, no group label and no border
NewEntry(action) ==
  [commandId |-> action.commandId, label |-> action.label,
   description |-> undefined, groupLabel |-> undefined, showBorder |-> FALSE]

ToEntries(actions) == [i \in 1..Len(actions) |-> NewEntry(actions[i])]

\* entry => `${entry.getLabel()}${entry.getGroupLabel()}${entry.getCommandId()}` (line 485)
DistinctKey(entry) == entry.label \o Template(entry.groupLabel) \o entry.commandId

\* distinct(array, keyFn) of vs/base/common/arrays: the first element of each key
distinct(array, keyFn(_)) ==
  LET keep == { i \in 1..Len(array) : \A j \in 1..(i - 1) : keyFn(array[j]) # keyFn(array[i]) }
      F[i \in 0..Len(array)] ==
        IF i = 0 THEN <<>>
        ELSE IF i \in keep THEN Append(F[i - 1], array[i]) ELSE F[i - 1]
  IN F[Len(array)]

\* `${entry.getLabel()}${entry.getGroupLabel()}` (line 490)
CommandLabel(entry) == entry.label \o Template(entry.groupLabel)

\* the forEach body that never sets a description
ClashAt_Never(entries, i) == entries[i]

\* the body of the forEach of lines 489-496, for the entry at position i
ClashAt(entries, i) ==
  IF \E j \in 1..(i - 1) : CommandLabel(entries[j]) = CommandLabel(entries[i])
  THEN [entries[i] EXCEPT !.description = entries[i].commandId]
  ELSE entries[i]

\* handle label clashes (lines 488-496)
HandleLabelClashes(entries) == [i \in 1..Len(entries) |-> ClashAt(entries, i)]

\* a counter used as a condition: undefined and 0 are falsy
Truthy(counterValue) == counterValue # NoNumber /\ counterValue # 0

\* labelLowercase of each label (line 253)
LabelLowercase == [label \in Labels |-> toLowerCase(label)]

\* getSortLabel (lines 273-275)
getSortLabel(entry) == LabelLowercase[entry.label]

\* localeCompare of two sort labels
SortLabelOrder ==
  [a \in Labels, b \in Labels |-> localeCompare(LabelLowercase[a], LabelLowercase[b])]

\* the comparator with the older of two used commands first
CompareEntries_OlderFirst(c, elementA, elementB) ==
  LET counterA == peek(c, elementA.commandId).value
      counterB == peek(c, elementB.commandId).value
  IN IF Truthy(counterA) /\ Truthy(counterB)
     THEN (IF counterA > counterB THEN 1 ELSE -1)
     ELSE IF Truthy(counterA) THEN -1
     ELSE IF Truthy(counterB) THEN 1
     ELSE SortLabelOrder[elementA.label, elementB.label]

\* the comparator of lines 499-517
CompareEntries(c, elementA, elementB) ==
  LET counterA == peek(c, elementA.commandId).value
      counterB == peek(c, elementB.commandId).value
  IN IF Truthy(counterA) /\ Truthy(counterB)
     THEN (IF counterA > counterB THEN -1 ELSE 1)
     ELSE IF Truthy(counterA) THEN -1
     ELSE IF Truthy(counterB) THEN 1
     ELSE SortLabelOrder[elementA.label, elementB.label]

\* sort by MRU order (lines 499-517)
SortEntries(c, entries) ==
  LET compare(a, b) == CompareEntries(c, a, b) IN sort(entries, compare)

\* the group markers left out
MarkGroups_None(c, entries) == entries

\* the group markers without the break of line 529: every entry without a
\* counter is marked
MarkGroups_NoBreak(c, entries) ==
  IF entries # <<>> /\ Truthy(peek(c, entries[1].commandId).value)
  THEN [i \in 1..Len(entries) |->
          IF i = 1 THEN [entries[i] EXCEPT !.groupLabel = RecentlyUsed]
          ELSE IF ~Truthy(peek(c, entries[i].commandId).value)
               THEN [entries[i] EXCEPT !.showBorder = TRUE, !.groupLabel = OtherCommands]
               ELSE entries[i]]
  ELSE entries

\* the group markers (lines 521-532)
MarkGroups(c, entries) ==
  IF entries # <<>> /\ Truthy(peek(c, entries[1].commandId).value)
  THEN LET others == { i \in 2..Len(entries) : ~Truthy(peek(c, entries[i].commandId).value) }
           border == IF others = {} THEN 0 ELSE CHOOSE i \in others : \A j \in others : i <= j
       IN [i \in 1..Len(entries) |->
             IF i = 1 THEN [entries[i] EXCEPT !.groupLabel = RecentlyUsed]
             ELSE IF i = border
                  THEN [entries[i] EXCEPT !.showBorder = TRUE, !.groupLabel = OtherCommands]
                  ELSE entries[i]]
  ELSE entries

\* the cache after the peeks the sort and the group markers make for the entries
RECURSIVE PeekAll(_, _)
PeekAll(c, entries) ==
  IF entries = <<>> THEN c
  ELSE PeekAll(peek(c, Head(entries).commandId).cache, Tail(entries))

\* doGetResults for a token that is not cancelled: the model and the cache
\* after it.  The stages, each bound to the value of the one before: concat and
\* distinct (unique), the label clashes (described), the sort (sorted), the
\* group markers.
doGetResults(c, editorEntries, commandEntries) ==
  CHOOSE r \in
    { [model |-> MarkGroups(c, sorted), cache |-> PeekAll(c, sorted)] :
        sorted \in
          { SortEntries(c, described) :
              described \in
                { HandleLabelClashes(unique) :
                    unique \in { distinct(editorEntries \o commandEntries, DistinctKey) } } } } :
      TRUE

(***************************************************************************)
(* Initial state: a fresh process over a storage that is empty, holds what *)
(* an earlier session saved (in the LRU or in the legacy encoding), or     *)
(* holds something else.                                                   *)
(***************************************************************************)
Entry(k, v) == [key |-> k, value |-> v]

\* nothing stored, or what an earlier session saved
SavedStorages ==
  { [cache |-> RawMissing, counter |-> NoNumber],
    [cache |-> [kind |-> "json", usesLRU |-> TRUE,
                entries |-> <<Entry("a", 1), Entry("b", 2)>>], counter |-> 3],
    [cache |-> [kind |-> "json", usesLRU |-> FALSE,
                entries |-> <<Entry("b", 2), Entry("a", 1)>>], counter |-> 3] }

\* text that is not JSON, and JSON without an entries list
CorruptStorages ==
  { [cache |-> [kind |-> "invalid", usesLRU |-> FALSE, entries |-> <<>>], counter |-> NoNumber],
    [cache |-> [kind |-> "noentries", usesLRU |-> FALSE, entries |-> <<>>], counter |-> NoNumber] }

\* ret: the operation, the instance it was called on, its argument and its
\* result (value of peek, model of a query, the entries a push or a change of
\* the setting dropped from the cache); afterPush, peekedBefore, peekedBeforeSinceClear and
\* selected are taken from ret and hist as they were when it started
NoRet == [op |-> "none", handle |-> 0, id |-> "", value |-> NoNumber, model |-> <<>>,
          evicted |-> <<>>,
          afterPush |-> FALSE, pushedBy |-> 0, peekedBefore |-> 0, peekedBeforeSinceClear |-> 0,
          selected |-> ""]

\* the lists of at most n of the given actions
ActionLists(actions, n) == UNION { [1..k -> actions] : k \in 0..n }

\* hist: the largest counter a recorded peek returned so far, and since the
\* last clear; the command id selected (run) under a history length >= 1
\* since the last query
NoHist == [peeked |-> 0, peekedSinceClear |-> 0, selected |-> ""]

\* session and twin where the handler and the second process play no part
NoSession == [used |-> FALSE]
NoTwin == [used |-> FALSE]

InitStore ==
  /\ cache = NoCache
  /\ counter = InitialCounter
  /\ config \in Capacities
  /\ histories = <<>>
  /\ ret = NoRet
  /\ hist = NoHist
  /\ twin = NoTwin

\* the palette: the history, and queries over the matching actions
Init ==
  /\ InitStore
  /\ session = NoSession
  /\ storage \in SavedStorages
  /\ \E editorActions \in ActionLists(EditorActions, MaxEntries) :
       \E commandActions \in ActionLists(MenuActions, MaxEntries - Len(editorActions)) :
         matching = [editor |-> editorActions, menu |-> commandActions]

\* the history alone
InitHistory ==
  /\ InitStore
  /\ session = NoSession
  /\ storage \in SavedStorages \cup CorruptStorages
  /\ matching = [editor |-> <<>>, menu |-> <<>>]

Max(a, b) == IF a > b THEN a ELSE b

SetStore(S) ==
  /\ cache' = S.cache
  /\ counter' = S.counter
  /\ storage' = S.storage

(***************************************************************************)
(* Actions.                                                                *)
(***************************************************************************)
\* new CommandsHistory (lines 57-67), as CommandsHandler's constructor does
Construct ==
  /\ Len(histories) < MaxHandles
  /\ LET configured == config
         updated == updateConfiguration(Store, configured)
         loaded  == load(updated, configured)
     IN /\ SetStore(loaded.S)
        /\ histories' = IF loaded.threw THEN histories ELSE Append(histories, configured)
        /\ ret' = [NoRet EXCEPT !.op = IF loaded.threw THEN "constructThrew" ELSE "construct"]
  /\ UNCHANGED <<config, matching, hist, session, twin>>

\* the setting changes; every instance's listener runs updateConfiguration
RECURSIVE Notify(_, _, _)
Notify(S, n, value) ==
  IF n = 0 THEN S ELSE Notify(updateConfiguration(S, value), n - 1, value)

\* onDidChangeConfiguration fires for every change of the configuration, a
\* change that leaves the history length as it is included
ChangeConfiguration(value) ==
  /\ config' = value
  /\ SetStore(Notify(Store, Len(histories), value))
  /\ histories' = [i \in 1..Len(histories) |-> value]
  /\ ret' = [NoRet EXCEPT !.op = "configuration",
               !.evicted = SelectSeq(cache.entries, LAMBDA e : e.key \notin Keys(cache'.entries))]
  /\ UNCHANGED <<matching, hist, session, twin>>

\* onBeforeRunCommand that does not remember the command
onBeforeRunCommand_Nothing(S, commandId) == S

\* onBeforeRunCommand (lines 562-566)
onBeforeRunCommand(S, commandId) == push(S, commandId)

\* an entry is run in open mode: runAction calls onBeforeRun (line 316), that
\* is onBeforeRunCommand
RunEntryCall(handle, commandId) ==
  /\ handle \in 1..Len(histories)
  /\ counter < MaxCounter
  /\ SetStore(onBeforeRunCommand(Store, commandId))
  /\ ret' = [NoRet EXCEPT !.op = "push", !.handle = handle, !.id = commandId,
               !.evicted = SelectSeq(cache.entries,
                             LAMBDA e : e.key # commandId /\ e.key \notin Keys(cache'.entries))]
  /\ hist' = [hist EXCEPT !.selected = IF config >= 1 THEN commandId ELSE ""]
  /\ UNCHANGED <<config, histories, matching, twin>>

RunEntry(handle, commandId) ==
  /\ RunEntryCall(handle, commandId)
  /\ UNCHANGED session

\* commandsHistory.peek(commandId)
PeekCall(handle, commandId) ==
  /\ handle \in 1..Len(histories)
  /\ LET r == peek(cache, commandId)
         afterPush == ret.op = "push" /\ ret.id = commandId
     IN /\ cache' = r.cache
        /\ ret' = [NoRet EXCEPT !.op = "peek", !.handle = handle, !.id = commandId,
                     !.value = r.value,
                     !.pushedBy = IF afterPush THEN ret.handle ELSE 0,
                     !.afterPush = afterPush,
                     !.peekedBefore = IF afterPush THEN hist.peeked ELSE 0,
                     !.peekedBeforeSinceClear =
                        IF afterPush THEN hist.peekedSinceClear ELSE 0]
  /\ UNCHANGED <<counter, config, histories, matching, storage, session, twin>>

Peek(handle, commandId) ==
  /\ PeekCall(handle, commandId)
  /\ UNCHANGED hist

\* the same call, with the counters it returns recorded in hist
PeekRecorded(handle, commandId) ==
  /\ PeekCall(handle, commandId)
  /\ hist' = [hist EXCEPT !.peeked = Max(hist.peeked, ret'.value),
                          !.peekedSinceClear = Max(hist.peekedSinceClear, ret'.value)]

\* the Clear Command History action is run
ClearCommandHistory ==
  /\ SetStore(ClearCommandHistoryActionRun(Store, config))
  /\ ret' = [NoRet EXCEPT !.op = "clear"]
  /\ hist' = [hist EXCEPT !.peekedSinceClear = IF config > 0 THEN 0 ELSE hist.peekedSinceClear]
  /\ UNCHANGED <<config, histories, matching, session, twin>>

\* getResults for a token that is not cancelled: the editor's matching actions
\* and the menu's, through the pipeline
Query ==
  /\ histories # <<>>
  /\ LET r == doGetResults(cache, ToEntries(matching.editor), ToEntries(matching.menu))
     IN /\ cache' = r.cache
        /\ ret' = [NoRet EXCEPT !.op = "query",
                     !.model = r.model,
                     !.selected = hist.selected]
        /\ hist' = [hist EXCEPT !.selected = ""]
  /\ UNCHANGED <<counter, config, histories, matching, storage, session, twin>>

Next ==
  \/ Construct
  \/ \E value \in Capacities : ChangeConfiguration(value)
  \/ \E handle \in 1..MaxHandles : \E commandId \in CommandIds : RunEntry(handle, commandId)
  \/ \E handle \in 1..MaxHandles : \E commandId \in CommandIds : Peek(handle, commandId)
  \/ ClearCommandHistory
  \/ Query

Spec == Init /\ [][Next]_vars

NextHistory ==
  \/ Construct
  \/ \E value \in Capacities : ChangeConfiguration(value)
  \/ \E handle \in 1..MaxHandles : \E commandId \in CommandIds : RunEntry(handle, commandId)
  \/ \E handle \in 1..MaxHandles : \E commandId \in CommandIds : PeekRecorded(handle, commandId)
  \/ ClearCommandHistory

SpecHistory == InitHistory /\ [][NextHistory]_vars

(***************************************************************************)
(* Two processes side by side: one starts over a storage in the legacy     *)
(* encoding (no usesLRU, entries in any order), the other (twin) over the  *)
(* LRU encoding of the same entries, oldest first.  Each step applies the  *)
(* same operation to both.                                                 *)
(***************************************************************************)
\* the entry lists a session can have saved: distinct keys, counters ascending
LoadEntryLists ==
  { entries \in UNION { [1..k -> [key : CommandIds, value : 1..(MaxCounter - 1)]] : k \in 0..MaxSaved } :
      \A i \in 1..Len(entries) : \A j \in 1..Len(entries) :
        i < j => (entries[i].key # entries[j].key /\ entries[i].value < entries[j].value) }

\* the orders in which the legacy encoding can list the entries
Orders(entries) ==
  { p \in [1..Len(entries) -> { entries[i] : i \in 1..Len(entries) }] :
      \A i \in 1..Len(entries) : \E j \in 1..Len(entries) : p[j] = entries[i] }

\* the counter saved with the entries: one more than the newest entry's
SavedCounter(entries) ==
  IF entries = <<>> THEN InitialCounter ELSE entries[Len(entries)].value + 1

\* the menu actions the queries of the two processes match
LoadMatching ==
  << [commandId |-> "a", label |-> "Save"],
     [commandId |-> "b", label |-> "alpha"],
     [commandId |-> "undefinedb", label |-> "Save"] >>

InitLoad ==
  /\ cache = NoCache
  /\ counter = InitialCounter
  /\ config \in Capacities
  /\ histories = <<>>
  /\ ret = NoRet
  /\ hist = NoHist
  /\ session = NoSession
  /\ matching = [editor |-> <<>>, menu |-> LoadMatching]
  /\ \E saved \in LoadEntryLists : \E legacy \in Orders(saved) :
       /\ storage = [cache |-> [kind |-> "json", usesLRU |-> FALSE, entries |-> legacy],
                     counter |-> SavedCounter(saved)]
       /\ twin = [used |-> TRUE, legacy |-> legacy,
                  S |-> [cache |-> NoCache, counter |-> InitialCounter,
                         storage |-> [cache |-> [kind |-> "json", usesLRU |-> TRUE,
                                                 entries |-> saved],
                                      counter |-> SavedCounter(saved)]],
                  value |-> NoNumber, model |-> <<>>, evicted |-> <<>>]

\* the entries of the cache before that are no longer in the cache after
Dropped(before, after, commandId) ==
  SelectSeq(before.entries, LAMBDA e : e.key # commandId /\ e.key \notin Keys(after.entries))

\* new CommandsHistory in both processes
ConstructBoth ==
  /\ histories = <<>>
  /\ LET one == load(updateConfiguration(Store, config), config)
         two == load(updateConfiguration(twin.S, config), config)
     IN /\ ~one.threw /\ ~two.threw
        /\ SetStore(one.S)
        /\ twin' = [twin EXCEPT !.S = two.S, !.value = NoNumber, !.model = <<>>,
                                !.evicted = <<>>]
  /\ histories' = <<config>>
  /\ ret' = [NoRet EXCEPT !.op = "construct"]
  /\ UNCHANGED <<config, matching, hist, session>>

\* the same entry is run in both processes
RunEntryBoth(commandId) ==
  /\ histories # <<>>
  /\ counter < MaxCounter
  /\ LET one == onBeforeRunCommand(Store, commandId)
         two == onBeforeRunCommand(twin.S, commandId)
     IN /\ SetStore(one)
        /\ ret' = [NoRet EXCEPT !.op = "push", !.handle = 1, !.id = commandId,
                     !.evicted = Dropped(cache, one.cache, commandId)]
        /\ twin' = [twin EXCEPT !.S = two, !.value = NoNumber, !.model = <<>>,
                                !.evicted = Dropped(twin.S.cache, two.cache, commandId)]
  /\ UNCHANGED <<config, histories, matching, hist, session>>

\* the setting changes in both processes
ChangeConfigurationBoth(value) ==
  /\ histories # <<>>
  /\ config' = value
  /\ LET one == Notify(Store, Len(histories), value)
         two == Notify(twin.S, Len(histories), value)
     IN /\ SetStore(one)
        /\ ret' = [NoRet EXCEPT !.op = "configuration",
                     !.evicted = Dropped(cache, one.cache, "")]
        /\ twin' = [twin EXCEPT !.S = two, !.value = NoNumber, !.model = <<>>,
                                !.evicted = Dropped(twin.S.cache, two.cache, "")]
  /\ histories' = [i \in 1..Len(histories) |-> value]
  /\ UNCHANGED <<matching, hist, session>>

\* the same peek in both processes
PeekBoth(commandId) ==
  /\ histories # <<>>
  /\ LET one == peek(cache, commandId)
         two == peek(twin.S.cache, commandId)
     IN /\ cache' = one.cache
        /\ ret' = [NoRet EXCEPT !.op = "peek", !.handle = 1, !.id = commandId,
                     !.value = one.value]
        /\ twin' = [twin EXCEPT !.S.cache = two.cache, !.value = two.value,
                                !.model = <<>>, !.evicted = <<>>]
  /\ UNCHANGED <<counter, config, histories, matching, storage, hist, session>>

\* the same query in both processes
QueryBoth ==
  /\ histories # <<>>
  /\ LET one == doGetResults(cache, ToEntries(matching.editor), ToEntries(matching.menu))
         two == doGetResults(twin.S.cache, ToEntries(matching.editor), ToEntries(matching.menu))
     IN /\ cache' = one.cache
        /\ ret' = [NoRet EXCEPT !.op = "query", !.model = one.model]
        /\ twin' = [twin EXCEPT !.S.cache = two.cache, !.value = NoNumber,
                                !.model = two.model, !.evicted = <<>>]
  /\ UNCHANGED <<counter, config, histories, matching, storage, hist, session>>

NextLoad ==
  \/ ConstructBoth
  \/ \E commandId \in CommandIds : RunEntryBoth(commandId)
  \/ \E value \in Capacities : ChangeConfigurationBoth(value)
  \/ \E commandId \in CommandIds : PeekBoth(commandId)
  \/ QueryBoth

SpecLoad == InitLoad /\ [][NextLoad]_vars

(***************************************************************************)
(* CommandsHandler.getResults (lines 438-451): the wait for the extensions *)
(* at the first query, and the entry of doGetResults (lines 453-461).      *)
(* session holds the handler's waitedForExtensionsRegistered, whether the  *)
(* extension service's whenInstalledExtensionsRegistered has resolved,     *)
(* lastCommandPaletteInput, and the calls of getResults: where each is     *)
(* (new, waiting at the await of line 447, done), its search value, its    *)
(* token, the time it has waited, and what it did.                         *)
(***************************************************************************)
\* timeout(800) (line 447)
TimeoutUnits == 800

\* the amounts by which the time advances
TickSteps == { TimeoutUnits \div 2, TimeoutUnits }

Queries == 1..MaxQueries

SearchValues == { " save", "al " }

\* String.prototype.trim
RECURSIVE trim(_)
trim(s) ==
  IF Len(s) = 0 THEN s
  ELSE IF SubSeq(s, 1, 1) = " " THEN trim(SubSeq(s, 2, Len(s)))
  ELSE IF SubSeq(s, Len(s), Len(s)) = " " THEN trim(SubSeq(s, 1, Len(s) - 1))
  ELSE s

NewQuery ==
  [pc |-> "new", searchValue |-> "", cancelled |-> FALSE, elapsed |-> 0, waited |-> FALSE,
   model |-> <<>>, sources |-> FALSE, menu |-> "none", raised |-> FALSE]

\* the menu actions and the editor action the queries of the session match
SessionMatching ==
  [editor |-> <<[commandId |-> "a", label |-> "Save"]>>,
   menu   |-> <<[commandId |-> "b", label |-> "alpha"]>>]

InitQuery ==
  /\ cache = NoCache
  /\ counter = InitialCounter
  /\ config \in Capacities
  /\ histories = <<>>
  /\ ret = NoRet
  /\ hist = NoHist
  /\ twin = NoTwin
  /\ storage \in SavedStorages
  /\ matching = SessionMatching
  /\ \E registered \in BOOLEAN :
       session = [used |-> TRUE, constructed |-> FALSE,
                  waitedForExtensionsRegistered |-> FALSE,
                  registered |-> registered,
                  lastCommandPaletteInput |-> undefined,
                  queries |-> [q \in Queries |-> NewQuery]]

\* new CommandsHandler (lines 416-432): its CommandsHistory is constructed, and
\* the callback of line 428 runs at once if the extensions are registered
ConstructHandler ==
  /\ ~session.constructed
  /\ LET loaded == load(updateConfiguration(Store, config), config)
     IN /\ ~loaded.threw
        /\ SetStore(loaded.S)
  /\ histories' = Append(histories, config)
  /\ session' = [session EXCEPT !.constructed = TRUE,
                                !.waitedForExtensionsRegistered = session.registered]
  /\ ret' = [NoRet EXCEPT !.op = "construct"]
  /\ UNCHANGED <<config, matching, hist, twin>>

\* whenInstalledExtensionsRegistered resolves; the callback of line 428 sets
\* the flag of a handler that exists
ExtensionsRegistered ==
  /\ ~session.registered
  /\ session' = [session EXCEPT !.registered = TRUE,
                                !.waitedForExtensionsRegistered =
                                   session.constructed \/ session.waitedForExtensionsRegistered]
  /\ UNCHANGED <<cache, counter, config, histories, matching, storage, ret, hist, twin>>

\* the token that never reports a cancellation
IsCancellationRequested_Never(query) == FALSE

\* token.isCancellationRequested (line 454)
IsCancellationRequested(query) == query.cancelled

\* menu.dispose() (line 478)
ReleaseMenu(menu) == "disposed"

\* doGetResults (lines 453-535) for a call of getResults: what the call did,
\* the input remembered, and the cache after it. raises tells whether
\* menu.getActions() or menuItemActionsToEntries (lines 474-477) throws: the
\* call then ends there, the menu of line 473 created and line 478 not reached
EnterPipeline(query, raises) ==
  IF IsCancellationRequested(query)
  THEN [query |-> [query EXCEPT !.pc = "done", !.model = <<>>],
        lastCommandPaletteInput |-> session.lastCommandPaletteInput,
        cache |-> cache]
  ELSE IF raises
  THEN [query |-> [query EXCEPT !.pc = "done", !.model = <<>>, !.raised = TRUE,
                                !.sources = TRUE, !.menu = "created"],
        lastCommandPaletteInput |-> trim(query.searchValue),
        cache |-> cache]
  ELSE LET r == doGetResults(cache, ToEntries(matching.editor), ToEntries(matching.menu))
       IN [query |-> [query EXCEPT !.pc = "done", !.model = r.model,
                                   !.sources = TRUE,
                                   !.menu = ReleaseMenu("created")],
           lastCommandPaletteInput |-> trim(query.searchValue),
           cache |-> r.cache]

\* the race of line 447 with the timeout left out
RaceSettled_RegistryOnly(query) == session.registered

\* Promise.race([timeout(800), whenInstalledExtensionsRegistered()]) has settled
RaceSettled(query) == session.registered \/ query.elapsed >= TimeoutUnits

\* getResults is called (lines 438-447): the pipeline at once if the flag is
\* set, the wait otherwise
IssueQuery(q, searchValue, cancelled, raises) ==
  /\ session.constructed
  /\ session.queries[q].pc = "new"
  /\ \A p \in Queries : p < q => session.queries[p].pc # "new"
  /\ LET query == [session.queries[q] EXCEPT !.searchValue = searchValue,
                                             !.cancelled = cancelled]
         r == EnterPipeline(query, raises)
     IN IF session.waitedForExtensionsRegistered
        THEN /\ session' = [session EXCEPT !.queries[q] = r.query,
                                           !.lastCommandPaletteInput = r.lastCommandPaletteInput]
             /\ cache' = r.cache
        ELSE /\ session' = [session EXCEPT !.queries[q] =
                                             [query EXCEPT !.pc = "waiting", !.waited = TRUE]]
             /\ cache' = cache
  /\ UNCHANGED <<counter, config, histories, matching, storage, ret, hist, twin>>

\* the token of a call that waits is cancelled (the call was superseded)
Cancel(q) ==
  /\ session.queries[q].pc = "waiting"
  /\ ~session.queries[q].cancelled
  /\ session' = [session EXCEPT !.queries[q].cancelled = TRUE]
  /\ UNCHANGED <<cache, counter, config, histories, matching, storage, ret, hist, twin>>

\* time passes for the calls that wait; a race that has settled resumes its
\* call before more time passes
Tick(d) ==
  /\ \E q \in Queries : session.queries[q].pc = "waiting"
  /\ \A q \in Queries :
       session.queries[q].pc = "waiting" =>
         /\ ~RaceSettled(session.queries[q])
         /\ session.queries[q].elapsed + d <= TimeoutUnits
  /\ session' = [session EXCEPT !.queries =
                   [q \in Queries |->
                      IF session.queries[q].pc = "waiting"
                      THEN [session.queries[q] EXCEPT !.elapsed = @ + d]
                      ELSE session.queries[q]]]
  /\ UNCHANGED <<cache, counter, config, histories, matching, storage, ret, hist, twin>>

\* the await of line 447 returns: the flag is set and the pipeline runs
\* (lines 448-450)
Resume(q) ==
  /\ session.queries[q].pc = "waiting"
  /\ RaceSettled(session.queries[q])
  /\ \E raises \in BOOLEAN :
       LET r == EnterPipeline(session.queries[q], raises)
       IN /\ session' = [session EXCEPT !.waitedForExtensionsRegistered = TRUE,
                                        !.queries[q] = r.query,
                                        !.lastCommandPaletteInput = r.lastCommandPaletteInput]
          /\ cache' = r.cache
  /\ UNCHANGED <<counter, config, histories, matching, storage, ret, hist, twin>>

NextQuery ==
  \/ ConstructHandler
  \/ ExtensionsRegistered
  \/ \E q \in Queries : \E searchValue \in SearchValues : \E cancelled \in BOOLEAN :
       \E raises \in BOOLEAN : IssueQuery(q, searchValue, cancelled, raises)
  \/ \E q \in Queries : Cancel(q)
  \/ \E d \in TickSteps : Tick(d)
  \/ \E q \in Queries : Resume(q)

SpecQuery == InitQuery /\ [][NextQuery]_vars

\* the timers run and the continuations of settled promises are executed
SpecQueryFair ==
  /\ InitQuery
  /\ [][NextQuery]_vars
  /\ WF_vars(\E d \in TickSteps : Tick(d))
  /\ \A q \in Queries : WF_vars(Resume(q))

(***************************************************************************)
(* BaseCommandEntry.run / runAction (lines 301-349): onBeforeRun, then the  *)
(* command runner, at once on Firefox and from a timer of 50 ms elsewhere.  *)
(* session holds the entry run last: where its command runner is           *)
(* (scheduled, running, or one of the outcomes), the command id, and what  *)
(* onBeforeRun did to the counter.                                         *)
(***************************************************************************)
NoRun == [pc |-> "none", commandId |-> "", pushed |-> FALSE, counter |-> NoNumber]

\* where a command runner ends: the action is not enabled (line 337), its
\* promise resolved, the run threw or rejected (onError, line 334), or it
\* rejected with a cancellation (line 352)
Outcomes == {"notEnabled", "succeeded", "threw", "cancelled"}

InitRun ==
  /\ InitStore
  /\ session = [used |-> TRUE, run |-> NoRun]
  /\ storage \in SavedStorages
  /\ matching = [editor |-> <<>>, menu |-> <<>>]

\* the command runner up to action.run() (lines 319-323)
RunnerStart(enabled) == IF enabled THEN "running" ELSE "notEnabled"

\* runAction (lines 313-349) of an entry: onBeforeRun, then commandRunner() on
\* Firefox, setTimeout(() => commandRunner(), 50) elsewhere
RunAction(handle, commandId, isFirefox, enabled) ==
  /\ session.run.pc \in Outcomes \cup {"none"}
  /\ RunEntryCall(handle, commandId)
  /\ session' = [session EXCEPT !.run =
                   [pc |-> IF isFirefox THEN RunnerStart(enabled) ELSE "scheduled",
                    commandId |-> commandId,
                    pushed |-> counter' = counter + 1,
                    counter |-> counter]]

\* the timer fires: the command runner runs the action if it is enabled
CommandRunner(enabled) ==
  /\ session.run.pc = "scheduled"
  /\ session' = [session EXCEPT !.run.pc = RunnerStart(enabled)]
  /\ UNCHANGED <<cache, counter, config, histories, matching, storage, ret, hist, twin>>

\* action.run() throws, or its promise settles
Settle(outcome) ==
  /\ session.run.pc = "running"
  /\ session' = [session EXCEPT !.run.pc = outcome]
  /\ UNCHANGED <<cache, counter, config, histories, matching, storage, ret, hist, twin>>

NextRun ==
  \/ Construct
  \/ \E value \in Capacities : ChangeConfiguration(value)
  \/ ClearCommandHistory
  \/ \E handle \in 1..MaxHandles : \E commandId \in CommandIds :
       \E isFirefox \in BOOLEAN : \E enabled \in BOOLEAN :
         RunAction(handle, commandId, isFirefox, enabled)
  \/ \E enabled \in BOOLEAN : CommandRunner(enabled)
  \/ \E outcome \in Outcomes \ {"notEnabled"} : Settle(outcome)

SpecRun == InitRun /\ [][NextRun]_vars

(***************************************************************************)
(* Properties.                                                             *)
(***************************************************************************)
\* the state holds the model a query has just returned
Queried == ret.op = "query"

\* the recorded counter of the entry at position i of the returned model
CounterAt(i) == LRUPeek(cache, ret.model[i].commandId).value

HasCounter(i) == CounterAt(i) # NoNumber

Positions == 1..Len(ret.model)

\* C1: the list a query returns has every candidate with a recorded counter
\* before every candidate without one, the candidates with counters in
\* descending counter order, and the candidates without counters in ascending
\* order of their lower-case label.
C1_RankedOrder ==
  Queried =>
    \A i \in Positions : \A j \in Positions :
      i < j =>
        /\ HasCounter(j) => HasCounter(i)
        /\ (HasCounter(i) /\ HasCounter(j)) => CounterAt(i) >= CounterAt(j)
        /\ (~HasCounter(i) /\ ~HasCounter(j)) =>
             localeCompare(toLowerCase(ret.model[i].label),
                           toLowerCase(ret.model[j].label)) <= 0

\* C1 witness: "Saveundefined", "alpha" and a used "Save" matched in that order
\* and came back as the used "Save", then "alpha", then "Saveundefined"
C1_Witness ==
  /\ Queried
  /\ matching.editor = <<[commandId |-> "b", label |-> "Saveundefined"]>>
  /\ matching.menu = <<[commandId |-> "b", label |-> "alpha"],
                       [commandId |-> "a", label |-> "Save"]>>
  /\ Len(ret.model) = 3
  /\ HasCounter(1) /\ ~HasCounter(2) /\ ~HasCounter(3)
  /\ ret.model[1].label = "Save"
  /\ ret.model[2].label = "alpha"
  /\ ret.model[3].label = "Saveundefined"

\* C2: the cache never holds more entries than the configured history length.
C2_SizeWithinCapacity == Len(cache.entries) <= config

\* C2 witness: a push dropped an entry and left the cache exactly full
C2_Witness ==
  /\ ret.op = "push"
  /\ ret.evicted # <<>>
  /\ config >= 1
  /\ Len(cache.entries) = config

\* C3: a push that drops an entry drops exactly the oldest entry of the cache,
\* and that entry holds the smallest counter of all; a push of an id that is
\* present moves it to the newest position under the new counter and adds no
\* second entry for it.
C3_EvictsOldest ==
  [][ret'.op = "push" =>
       LET id == ret'.id
           present == Append(Without(cache.entries, id), [key |-> id, value |-> counter])
           kept == cache'.entries
           dropped == SelectSeq(present, LAMBDA e : e.key \notin Keys(kept))
       IN /\ Len(dropped) <= 1
          /\ dropped # <<>> =>
               /\ dropped[1] = present[1]
               /\ kept = Tail(present)
               /\ \A i \in 1..Len(present) : present[i].value >= dropped[1].value
          /\ \A i \in 1..Len(kept) : \A j \in 1..Len(kept) :
               kept[i].key = kept[j].key => i = j
          /\ (id \in Keys(cache.entries) /\ cache.limit >= 1) =>
               /\ kept[Len(kept)] = [key |-> id, value |-> counter]
               /\ Len(kept) = Len(cache.entries)
     ]_vars

\* C3 witness: a push into a full cache of two dropped the oldest entry
C3_Witness ==
  /\ ret.op = "push"
  /\ Len(ret.evicted) = 1
  /\ Len(cache.entries) = 2
  /\ ret.evicted[1].value < cache.entries[1].value
  /\ cache.entries[2].key = ret.id

\* C4 as stated: push(x) immediately followed by peek(x) returns a counter,
\* strictly greater than every counter any peek returned before the push.
C4_PushThenPeekGreater ==
  (ret.op = "peek" /\ ret.afterPush) =>
    /\ ret.value # NoNumber
    /\ ret.value > ret.peekedBefore

\* C4 amended: while the history length is at least 1, push(x) immediately
\* followed by peek(x) returns a counter, strictly greater than every counter
\* any peek returned since the history was last cleared.
C4_PushThenPeekGreaterSinceClear ==
  (ret.op = "peek" /\ ret.afterPush /\ config >= 1) =>
    /\ ret.value # NoNumber
    /\ ret.value > ret.peekedBeforeSinceClear

\* C4 witness: a peek right after the push of its id returned more than an
\* earlier peek had
C4_Witness ==
  /\ ret.op = "peek"
  /\ ret.afterPush
  /\ config >= 1
  /\ ret.peekedBeforeSinceClear >= 1
  /\ ret.value > ret.peekedBeforeSinceClear

\* C5: a peek and a query leave the cache (entries, order, counters, limit),
\* the counter and the storage as they were, so the entry a later push would
\* drop is the same; a peek or a query repeated at once returns the same.
C5_PeekChangesNothing ==
  [][ret'.op \in {"peek", "query"} =>
       /\ cache' = cache
       /\ counter' = counter
       /\ storage' = storage
       /\ (ret.op = "query" /\ ret'.op = "query") => ret'.model = ret.model
       /\ (ret.op = "peek" /\ ret'.op = "peek" /\ ret'.id = ret.id) => ret'.value = ret.value
     ]_vars

\* C5 witness: a query returned the oldest of two entries of the cache, which
\* is still the oldest
C5_Witness ==
  /\ Queried
  /\ Len(cache.entries) = 2
  /\ \E i \in Positions : ret.model[i].commandId = cache.entries[1].key

\* the command ids of the actions that match the query
MatchingIds ==
  { matching.editor[i].commandId : i \in 1..Len(matching.editor) }
    \cup { matching.menu[i].commandId : i \in 1..Len(matching.menu) }

\* C6: after a candidate was selected for execution under a history
\* length of at least 1, the next query that matches its command id returns a
\* candidate with that id first, labelled "recently used".
C6_SelectedComesFirst ==
  (Queried /\ ret.selected # "" /\ ret.selected \in MatchingIds) =>
    /\ ret.model[1].commandId = ret.selected
    /\ ret.model[1].groupLabel = RecentlyUsed

\* the matching actions as the pipeline concatenates them
Concat == matching.editor \o matching.menu

\* the position at which the action of a returned entry first matched
FirstMatch(entry) ==
  CHOOSE i \in 1..Len(Concat) :
    /\ Concat[i] = [commandId |-> entry.commandId, label |-> entry.label]
    /\ \A j \in 1..(i - 1) : Concat[j] # Concat[i]

\* the positions of the returned entries that carry the label of entry i
SameLabel(i) == { j \in Positions : ret.model[j].label = ret.model[i].label }

\* C7 as stated: of the returned entries that share a label with another one,
\* each, the first included, has its own command id as description.
C7_EveryClashDescribed ==
  Queried =>
    \A i \in Positions :
      Cardinality(SameLabel(i)) > 1 => ret.model[i].description = ret.model[i].commandId

\* C7 amended: of the returned entries that share a label, each has its own
\* command id as description except the one that matched first, which has no
\* description; an entry whose label no other entry carries has none either.
C7_LaterClashesDescribed ==
  Queried =>
    \A i \in Positions :
      LET first == \A j \in SameLabel(i) : FirstMatch(ret.model[i]) <= FirstMatch(ret.model[j])
      IN ret.model[i].description = IF first THEN undefined ELSE ret.model[i].commandId

\* C7 witness: two entries labelled "Save"; the one that matched first has no
\* description, the other has its command id
C7_Witness ==
  /\ Queried
  /\ Len(ret.model) = 2
  /\ Concat = <<[commandId |-> "a", label |-> "Save"],
                [commandId |-> "undefinedb", label |-> "Save"]>>
  /\ \E i \in Positions :
       /\ ret.model[i].commandId = "a"
       /\ ret.model[i].description = undefined
  /\ \E i \in Positions :
       /\ ret.model[i].commandId = "undefinedb"
       /\ ret.model[i].description = "undefinedb"

\* C8: deduplication drops a candidate exactly when an earlier one has the
\* same label, group label and command id: every (label, command id) that
\* matched is returned, once.
C8_DropsOnlyDuplicates ==
  Queried =>
    /\ \A i \in 1..Len(Concat) :
         \E j \in Positions :
           /\ ret.model[j].label = Concat[i].label
           /\ ret.model[j].commandId = Concat[i].commandId
    /\ Len(ret.model) = Cardinality({ Concat[i] : i \in 1..Len(Concat) })

\* the positions of the returned entries that have no counter
Unused == { i \in Positions : ~HasCounter(i) }

\* the positions before the first entry without a counter
Recent == { i \in Positions : \A j \in 1..i : HasCounter(j) }

\* C9 as stated: when the first returned entry has a counter, it and every
\* following entry with a counter, up to the first one without, is labelled
\* "recently used".
C9_EveryRecentLabelled ==
  Queried => \A i \in Recent : ret.model[i].groupLabel = RecentlyUsed

\* C9 amended: when the first returned entry has a counter, it is labelled
\* "recently used", and the entries with a counter that follow it carry no
\* group label and no border.
C9_FirstRecentLabelled ==
  Queried =>
    \A i \in Recent :
      /\ ret.model[i].groupLabel = IF i = 1 THEN RecentlyUsed ELSE undefined
      /\ ~ret.model[i].showBorder

\* C9 witness: two used entries, the first labelled and the second not
C9_Witness ==
  /\ Queried
  /\ Len(ret.model) >= 2
  /\ HasCounter(1) /\ HasCounter(2)
  /\ CounterAt(1) > CounterAt(2)
  /\ ret.model[1].groupLabel = RecentlyUsed
  /\ ret.model[2].groupLabel = undefined

\* C10: when some returned entry has a counter and some has none, exactly
\* one entry is labelled "other commands" and has the border, the first one
\* without a counter; when no entry has a counter, none has a group label or
\* a border.
C10_OneOtherCommandsMarker ==
  Queried =>
    LET marked == { i \in Positions :
                      ret.model[i].groupLabel = OtherCommands \/ ret.model[i].showBorder }
    IN /\ (Unused # {} /\ Unused # Positions) =>
            /\ marked = { CHOOSE i \in Unused : \A j \in Unused : i <= j }
            /\ \A i \in marked :
                 ret.model[i].groupLabel = OtherCommands /\ ret.model[i].showBorder
       /\ Unused = Positions =>
            \A i \in Positions :
              ret.model[i].groupLabel = undefined /\ ~ret.model[i].showBorder

\* C10 witness: a used entry, then two unused ones of which only the first
\* is marked
C10_Witness ==
  /\ Queried
  /\ Len(ret.model) = 3
  /\ HasCounter(1) /\ ~HasCounter(2) /\ ~HasCounter(3)
  /\ ret.model[2].groupLabel = OtherCommands /\ ret.model[2].showBorder
  /\ ret.model[3].groupLabel = undefined /\ ~ret.model[3].showBorder

\* C11: when the history length changes to n while an instance listens, the
\* cache keeps exactly its n newest entries (those with the largest counters;
\* peek returns undefined for the others) and the storage is rewritten to
\* them; when the notification carries the length the cache already has,
\* the cache is unchanged and nothing is written.
C11_ResizeKeepsNewest ==
  [][(ret'.op = "configuration" /\ histories # <<>>) =>
       LET n == config'
           before == cache.entries
           k == Len(before)
           kept == cache'.entries
       IN IF n # cache.limit
          THEN /\ kept = IF n < k THEN SubSeq(before, k - n + 1, k) ELSE before
               /\ \A i \in 1..k : \A j \in 1..Len(kept) :
                    before[i].key \notin Keys(kept) => before[i].value < kept[j].value
               /\ \A commandId \in CommandIds :
                    peek(cache', commandId).value =
                      IF \E j \in 1..Len(kept) : kept[j].key = commandId
                      THEN (CHOOSE e \in { before[i] : i \in 1..k } : e.key = commandId).value
                      ELSE NoNumber
               /\ storage'.cache = JSONstringify([usesLRU |-> TRUE, entries |-> kept])
               /\ storage'.counter = counter'
               /\ counter' = counter
          ELSE /\ cache' = cache
               /\ counter' = counter
               /\ storage' = storage
     ]_vars

\* C11 witness: the length went from 2 to 1 over a cache of two; the older
\* entry is gone and the storage lists the newer one
C11_Witness ==
  /\ ret.op = "configuration"
  /\ histories # <<>>
  /\ config = 1
  /\ Len(ret.evicted) = 1
  /\ Len(cache.entries) = 1
  /\ ret.evicted[1].value < cache.entries[1].value
  /\ storage.cache.entries = cache.entries

\* C12: after the Clear Command History action was run, under any history
\* length, the cache is empty, the counter is 1, and the storage holds an
\* empty entry list and the counter 1.
C12_ClearResetsEverything ==
  ret.op = "clear" =>
    /\ cache.entries = <<>>
    /\ counter = InitialCounter
    /\ storage.cache = JSONstringify([usesLRU |-> TRUE, entries |-> <<>>])
    /\ storage.counter = InitialCounter

\* C14: whatever the storage holds for the cache (nothing, text that is not
\* JSON, JSON without an entries list), the construction of a CommandsHistory
\* does not throw and leaves an empty cache.
C14_CorruptLoadsEmpty ==
  /\ ret.op # "constructThrew"
  /\ (ret.op = "construct" /\ storage.cache.kind # "json") => cache.entries = <<>>

C20_ComparatorConsistent ==
  Queried =>
    \A i \in Positions : \A j \in Positions :
      i # j =>
        LET ab == CompareEntries(cache, ret.model[i], ret.model[j])
            ba == CompareEntries(cache, ret.model[j], ret.model[i])
        IN \/ (ab = 0 /\ ba = 0)
           \/ (ab < 0 /\ ba > 0)
           \/ (ab > 0 /\ ba < 0)

\* C13: after the load of the legacy encoding (the entries in any order) in
\* one process and the load of the LRU encoding (the same entries, oldest
\* first) in the other, the two caches hold the same entries in the same
\* order, and they stay the same under every sequence of push, peek, change
\* of the history length and query: same peek results, same dropped entries,
\* same returned lists.
C13_LegacyLoadsAsLRU ==
  histories # <<>> =>
    /\ cache = twin.S.cache
    /\ counter = twin.S.counter
    /\ ret.value = twin.value
    /\ ret.evicted = twin.evicted
    /\ ret.model = twin.model
    /\ ret.op \in {"push", "configuration"} /\ storage.cache.usesLRU => storage = twin.S.storage

\* C13 witness: the legacy list had the newer entry first; after the loads
\* and a push that dropped an entry from both caches, a query returned the
\* same list of three in both processes
C13_Witness ==
  /\ twin.used
  /\ Len(twin.legacy) = 2
  /\ twin.legacy[1].value > twin.legacy[2].value
  /\ ret.op = "query"
  /\ Len(ret.model) = 3
  /\ ret.model = twin.model
  /\ Len(cache.entries) = 2
  /\ cache.entries[2].key \notin { twin.legacy[i].key : i \in 1..2 }
  /\ cache = twin.S.cache

\* a call of getResults enters doGetResults in this step
Enters(q) == session.queries[q].pc # "done" /\ session'.queries[q].pc = "done"

\* C15: a call of getResults that waits enters the pipeline only once the
\* extensions are registered or its 800 units have elapsed, has never waited
\* longer than 800 units, and eventually returns, whether or not the
\* extensions ever get registered.
C15_FirstQueryWaitsAtMostTimeout ==
  /\ [][\A q \in Queries :
          (session.queries[q].pc = "waiting" /\ Enters(q)) =>
            (session.registered \/ session.queries[q].elapsed = TimeoutUnits)]_vars
  /\ [](\A q \in Queries : session.queries[q].elapsed <= TimeoutUnits)
  /\ \A q \in Queries :
       (session.queries[q].pc = "waiting") ~> (session.queries[q].pc = "done")

\* C15 witness: the first call waited the 800 units and returned its list
\* with the extensions still not registered
C15_Witness ==
  /\ session.used
  /\ ~session.registered
  /\ session.queries[1].pc = "done"
  /\ session.queries[1].waited
  /\ session.queries[1].elapsed = TimeoutUnits
  /\ Len(session.queries[1].model) = 2

\* C16: at most one call of getResults ever waits for the extensions.
C16_AtMostOneWait ==
  session.used => Cardinality({ q \in Queries : session.queries[q].waited }) <= 1

\* C17: a call whose token is cancelled when it enters doGetResults returns
\* an empty list, has asked neither the editor nor the menu for actions, has
\* created no menu, and leaves lastCommandPaletteInput, the cache, the counter
\* and the storage as they were.
C17_CancelledDoesNothing ==
  [][\A q \in Queries :
       (Enters(q) /\ session'.queries[q].cancelled) =>
         /\ session'.queries[q].model = <<>>
         /\ ~session'.queries[q].sources
         /\ session'.queries[q].menu = "none"
         /\ session'.lastCommandPaletteInput = session.lastCommandPaletteInput
         /\ cache' = cache
         /\ counter' = counter
         /\ storage' = storage
    ]_vars

\* C17 witness: the first call returned its list and remembered its input;
\* the second was cancelled and returned nothing, the input still the first's
C17_Witness ==
  /\ session.used
  /\ session.queries[1].pc = "done"
  /\ ~session.queries[1].cancelled
  /\ Len(session.queries[1].model) = 2
  /\ session.queries[2].pc = "done"
  /\ session.queries[2].cancelled
  /\ session.queries[2].model = <<>>
  /\ session.queries[2].searchValue # session.queries[1].searchValue
  /\ session.lastCommandPaletteInput = trim(session.queries[1].searchValue)

\* C18: every run of an entry pushes its command id (the counter advances,
\* and under a history length of at least 1 peek returns the counter
\* assigned and the storage is saved) before its command runner is scheduled
\* or started; whatever the command runner then does (the action is not
\* enabled, succeeds, throws, is cancelled), it leaves the cache, the counter
\* and the storage as they are.
C18_PushBeforeRun ==
  /\ [](session.run.pc # "none" => session.run.pushed)
  /\ [][session'.run # session.run =>
          IF session.run.pc \in {"scheduled", "running"}
          THEN /\ cache' = cache
               /\ counter' = counter
               /\ storage' = storage
          ELSE /\ counter' = counter + 1
               /\ storage'.counter = counter'
               /\ storage'.cache = JSONstringify([usesLRU |-> TRUE, entries |-> cache'.entries])
               /\ config >= 1 => peek(cache', session'.run.commandId).value = counter
       ]_vars

\* C18 witness: the action of the entry run last threw, and peek still returns
\* the counter its run was given
C18_Witness ==
  /\ session.used
  /\ session.run.pc = "threw"
  /\ session.run.pushed
  /\ config >= 1
  /\ peek(cache, session.run.commandId).value = session.run.counter

\* C21: in every state reached through construction, push, change of the
\* history length and clear, no two entries of the cache hold the same
\* counter, and the counter the next push will assign is greater than the
\* counter of every entry.
C21_CountersUnique ==
  /\ \A i \in 1..Len(cache.entries) : \A j \in 1..Len(cache.entries) :
       i # j => cache.entries[i].value # cache.entries[j].value
  /\ \A i \in 1..Len(cache.entries) : counter > cache.entries[i].value

\* C21 witness: after a clear the counters started again at 1: the cache
\* holds two entries pushed since, and a peek before the clear had returned
\* a counter that the next push will assign again
C21_Witness ==
  /\ ret.op = "push"
  /\ Len(cache.entries) = 2
  /\ hist.peekedSinceClear = 0
  /\ hist.peeked >= counter

\* the entries the storage lists, oldest first
PersistedEntries ==
  IF storage.cache.kind # "json" THEN <<>>
  ELSE IF storage.cache.usesLRU THEN storage.cache.entries
  ELSE sort(storage.cache.entries, ByValue)

\* C22: after a construction, a push, a change of the history length and a
\* clear, the storage lists exactly the entries of the cache, oldest first,
\* and holds the counter (a storage without a counter standing for 1).
C22_PersistedMatchesMemory ==
  (ret.op \in {"construct", "push", "configuration", "clear"} /\ cache.defined) =>
    /\ PersistedEntries = cache.entries
    /\ getNumber(storage.counter, InitialCounter) = counter

\* C23: a call of getResults that has created the command palette menu has
\* disposed of it when the call ends, also when reading the menu's actions
\* or converting them to entries throws.
C23_MenuReleased ==
  session.used =>
    \A q \in Queries :
      session.queries[q].pc = "done" => session.queries[q].menu \in {"none", "disposed"}

====
